---- MODULE Spec2Model ----
(***************************************************************************)
(* Model of packages/sdk/src/client.ts: the Client of the refine cloud     *)
(* SDK.  The client installs, on the axios instance, the axios-auth-refresh*)
(* interceptor (createAuthRefreshInterceptor with its default options:     *)
(* statusCodes [401], no pauseInstanceWhileRefreshing), a response         *)
(* interceptor that persists returned tokens and a request interceptor     *)
(* that stamps the Authorization header.  call() issues a request and      *)
(* turns a failure into a RefineCloudException.                            *)
(*                                                                         *)
(* The axios instance is the one of the process (the default export of     *)
(* axios): every Client constructed registers its three interceptors on it,*)
(* after those of the clients constructed before.                          *)
(*                                                                         *)
(* JavaScript runs the handlers of one event (a call, the arrival of a     *)
(* response) together with the promise reactions it triggers before the    *)
(* next event is taken; each such event is one action.                     *)
(***************************************************************************)
EXTENDS Integers, Sequences, FiniteSets, TLC

\* Number of call() invocations a behaviour makes.
NumCalls == 2

CallIds == 1..NumCalls

\* Number of Client instances the process constructs, numbered in the order
\* of their construction.
NumClients == 2

Clients == 1..NumClients

\* The ClientIdentity given to the constructor of client this.
baseUrl(this) == <<"baseUrl", this>>
clientId(this) == <<"clientId", this>>

\* undefined / null / "": every falsy value a token read can yield.
None == "none"

\* undefined where it is told from the other falsy values: the
\* response.data.message of a failure that carries no response, the baseURL
\* of a call that was not made yet.
Undefined == <<"undefined">>

\* Keys of window.localStorage used by the client.
AccessKey == "refine-sdk-access-token"
RefreshKey == "refine-sdk-refresh-token"

VARIABLES
    isBrowser,  \* typeof window !== "undefined"
    store,      \* window.localStorage, the two token keys
    cache,      \* the interceptor's cache: refreshCall, requestQueueInterceptorId
    calls,      \* one record per call(): its config and its promise
    exch,       \* the refresh exchanges started so far, in order
    hist        \* history of the behaviour (what was observed, and when)

vars == <<isBrowser, store, cache, calls, exch, hist>>

----------------------------------------------------------------------------
(* What the server (or the network) answers.  A body names the request it  *)
(* answers, so that two answers are never confused: id and message are     *)
(* <<kind, request, attempt>>.                                             *)

StatusText(status) ==
    CASE status = 200 -> "OK"
      [] status = 201 -> "Created"
      [] status = 401 -> "Unauthorized"
      [] status = 503 -> "Service Unavailable"
      [] OTHER -> ""

Answer(tag, status, at, rt) ==
    [kind |-> "response", status |-> status, statusText |-> StatusText(status),
     data |-> [id |-> tag, message |-> tag, accessToken |-> at, refreshToken |-> rt]]

\* No response at all: a network failure (err.response is undefined).
NetworkError ==
    [kind |-> "network", status |-> 0, statusText |-> "",
     data |-> [id |-> Undefined, message |-> Undefined,
               accessToken |-> None, refreshToken |-> None]]

\* The axios.Cancel thrown by the request queue interceptor.
Cancel ==
    [kind |-> "cancel", status |-> 0, statusText |-> "",
     data |-> [id |-> Undefined, message |-> Undefined,
               accessToken |-> None, refreshToken |-> None]]

NoOutcome ==
    [kind |-> "none", status |-> 0, statusText |-> "",
     data |-> [id |-> Undefined, message |-> Undefined,
               accessToken |-> None, refreshToken |-> None]]

\* Answers axios resolves with (validateStatus: 2xx).
Successes(tag) ==
    { Answer(tag, 200, None, None),
      Answer(tag, 200, "a1", "r1"),
      Answer(tag, 200, "a1", None),
      Answer(tag, 201, "a1", "r1") }

\* Outcomes axios rejects with.
Failures(tag) ==
    { Answer(tag, 401, None, None),
      Answer(tag, 503, None, None),
      NetworkError }

CallTag(c, n) == <<"call", c, n>>
RefreshTag(e) == <<"refresh", e, 1>>

----------------------------------------------------------------------------
(* The pure parts of the client.                                           *)

\* Client.getLocalStorage, on the storage contents st.
getLocalStorage(st, key) ==
    IF isBrowser THEN st[key] ELSE None

\* Client.setLocalStorage, on the storage contents st.
setLocalStorage(st, key, value) ==
    IF isBrowser THEN [st EXCEPT ![key] = value] ELSE st

ResponseInterceptorAccessOnly(st, response) ==
    LET accessToken == response.data.accessToken
        refreshToken == response.data.refreshToken
    IN  IF response.status = 200 /\ accessToken # None
        THEN setLocalStorage(setLocalStorage(st, AccessKey, accessToken),
                             RefreshKey, refreshToken)
        ELSE st

\* The response interceptor: the storage contents after it saw response.
ResponseInterceptor(st, response) ==
    LET accessToken == response.data.accessToken
        refreshToken == response.data.refreshToken
    IN  IF response.status = 200 /\ accessToken # None /\ refreshToken # None
        THEN setLocalStorage(setLocalStorage(st, AccessKey, accessToken),
                             RefreshKey, refreshToken)
        ELSE st

RequestInterceptorStale(st, auth) ==
    LET accessToken == getLocalStorage(st, AccessKey)
    IN  IF auth # None THEN auth ELSE accessToken

RequestInterceptorUnstamped(st, auth) ==
    auth

\* The request interceptor: the Authorization header of a config whose
\* header was auth, stamped against the storage contents st.
RequestInterceptor(st, auth) ==
    LET accessToken == getLocalStorage(st, AccessKey)
    IN  IF accessToken # None THEN accessToken ELSE auth

shouldInterceptErrorAnyStatus(skipAuthRefresh, error) ==
    /\ ~skipAuthRefresh
    /\ error.kind = "response"

shouldInterceptErrorAnyConfig(skipAuthRefresh, error) ==
    /\ error.kind = "response"
    /\ error.status = 401

\* axios-auth-refresh shouldInterceptError, default options.
shouldInterceptError(skipAuthRefresh, error) ==
    /\ ~skipAuthRefresh
    /\ error.kind = "response"
    /\ error.status = 401

hasRefreshCallNever(cch) ==
    FALSE

\* axios-auth-refresh createRefreshCall: is the cached refresh call reused?
hasRefreshCall(cch) ==
    cch.refreshCall # 0

\* axios-auth-refresh unsetCache.
unsetCache ==
    [refreshCall |-> 0, requestQueueInterceptorId |-> FALSE]

\* new RefineCloudException(response?.data?.message, response?.status,
\* response?.statusText) as built by the catch of call().
RefineCloudException(err) ==
    IF err.kind = "response"
    THEN [message |-> err.data.message, status |-> err.status,
          statusText |-> err.statusText]
    ELSE [message |-> Undefined, status |-> 0, statusText |-> ""]

NoError == [message |-> Undefined, status |-> -1, statusText |-> ""]

\* A 200 answer whose body carries both tokens.
HasTokenPair(out) ==
    out.status = 200 /\ out.data.accessToken # None /\ out.data.refreshToken # None

----------------------------------------------------------------------------
(* State.                                                                  *)

NoCall ==
    [pc |-> "idle", baseURL |-> Undefined, skipAuthRefresh |-> FALSE,
     auth |-> None, sends |-> 0, awaits |-> 0, data |-> NoOutcome.data,
     error |-> NoError]

\* History of one call: the skipAuthRefresh of its payload and the answer
\* to its first attempt.
NoCallHist ==
    [skip |-> FALSE, first |-> NoOutcome]

\* History of the tokens: the pair carried by the latest 200 answer that had
\* both, none having been received yet.
NoPair == <<None, None>>

HistPair(out) ==
    IF HasTokenPair(out)
    THEN <<out.data.accessToken, out.data.refreshToken>>
    ELSE hist.pair

\* Every call is suspended by its 401 on refresh call e.
AllSuspendedOn(e) ==
    \A c \in CallIds : calls[c].pc = "suspended" /\ calls[c].awaits = e

\* No answer to any call has arrived yet.
NoAnswerYet ==
    \A d \in CallIds : calls[d].pc \in {"idle", "sent"} /\ calls[d].sends <= 1

Init ==
    /\ isBrowser \in BOOLEAN
    /\ store \in [{AccessKey, RefreshKey} -> {None, "a0", "r0"}]
    /\ store[AccessKey] \in {None, "a0"}
    /\ store[RefreshKey] \in {None, "r0"}
    /\ isBrowser \/ (store[AccessKey] = None /\ store[RefreshKey] = None)
    /\ cache = unsetCache
    /\ calls = [c \in CallIds |-> NoCall]
    /\ exch = <<>>
    /\ hist = [concurrent |-> TRUE, batched |-> FALSE, pair |-> NoPair,
               call |-> [c \in CallIds |-> NoCallHist]]

----------------------------------------------------------------------------
(* Steps shared by the handlers.                                           *)

\* A config passes the request interceptor and is dispatched.
Dispatch(cfg, st) ==
    [cfg EXCEPT !.pc = "sent", !.auth = RequestInterceptor(st, @),
                !.sends = @ + 1, !.awaits = 0]

resendFailedRequestUnmarked(cfg, st) ==
    Dispatch(cfg, st)

\* axios-auth-refresh resendFailedRequest: the failed config is marked
\* skipAuthRefresh and issued again on the instance.
resendFailedRequest(cfg, st) ==
    Dispatch([cfg EXCEPT !.skipAuthRefresh = TRUE], st)

\* refreshAuthLogic of client this: the exchange it posts when a refresh
\* token is stored.  axios.post is given no config, so the exchange carries
\* no skipAuthRefresh.
refreshAuthLogic(this, st) ==
    [pc |-> "sent", skipAuthRefresh |-> FALSE,
     auth |-> RequestInterceptor(st, None), sends |-> 1, awaits |-> 0,
     url |-> <<baseUrl(this), "/auth/refresh-token">>,
     applicationClientId |-> clientId(this),
     refreshToken |-> getLocalStorage(st, RefreshKey)]

\* The error handler of the auth-refresh interceptor up to the promise it
\* awaits: createRefreshCall followed by createRequestQueueInterceptor.
\* awaits = 0 stands for the promise of a refreshAuthLogic that returned
\* without posting, which is already fulfilled.  this is the client whose
\* constructor registered the interceptor.
createRefreshCall(this, cch, exs, st) ==
    IF hasRefreshCall(cch)
    THEN [awaits |-> cch.refreshCall, exch |-> exs,
          cache |-> [cch EXCEPT !.requestQueueInterceptorId = TRUE]]
    ELSE IF getLocalStorage(st, RefreshKey) # None
    THEN [awaits |-> Len(exs) + 1,
          exch |-> Append(exs, refreshAuthLogic(this, st)),
          cache |-> [refreshCall |-> Len(exs) + 1,
                     requestQueueInterceptorId |-> TRUE]]
    ELSE [awaits |-> 0, exch |-> exs, cache |-> unsetCache]

\* The reactions of one call to the settling of refresh call e:
\* a call suspended by its 401 is resent or rejected with the refresh error,
\* a call held by the request queue interceptor is let through or cancelled.
CallAfterRefresh(cfg, e, ok, out, st) ==
    IF cfg.awaits # e THEN cfg
    ELSE IF cfg.pc = "suspended"
    THEN IF ok THEN resendFailedRequest(cfg, st)
         ELSE [cfg EXCEPT !.pc = "rejected", !.awaits = 0,
                          !.error = RefineCloudException(out)]
    ELSE IF cfg.pc = "queued"
    THEN IF ok THEN Dispatch(cfg, st)
         ELSE [cfg EXCEPT !.pc = "rejected", !.awaits = 0,
                          !.error = RefineCloudException(Cancel)]
    ELSE cfg

\* The same for an exchange: x is exchange i.
ExchAfterRefresh(x, i, e, ok, out, st) ==
    IF i = e
    THEN [x EXCEPT !.pc = IF ok THEN "resolved" ELSE "rejected"]
    ELSE IF x.pc = "suspended" /\ x.awaits = e
    THEN IF ok THEN resendFailedRequest(x, st)
         ELSE [x EXCEPT !.pc = "rejected", !.awaits = 0]
    ELSE x

\* Refresh call e settles (ok: fulfilled) with out, the storage being st:
\* every waiter runs unsetCache and then its own reaction.
SettleRefresh(e, ok, out, st) ==
    /\ cache' = unsetCache
    /\ calls' = [c \in CallIds |-> CallAfterRefresh(calls[c], e, ok, out, st)]
    /\ exch' = [i \in 1..Len(exch) |-> ExchAfterRefresh(exch[i], i, e, ok, out, st)]

\* The auth-refresh error handlers of the clients are on the same axios and
\* see a failure in the order of their registration, each what the one before
\* it rejected.  All of them apply the same shouldInterceptError, so a failure
\* that any of them intercepts is intercepted by the first; what that one
\* rejects afterwards is the failure of its refresh call, which was let
\* through already, or of the resent request, which is marked skipAuthRefresh.
\* The handler that acts, with its refreshAuthLogic and its cache, is
\* therefore the one of the client constructed first.
AuthRefreshInterceptor ==
    CHOOSE this \in Clients : \A other \in Clients : this <= other

----------------------------------------------------------------------------
(* Actions.                                                                *)

\* this.call(payload): the request is built with the baseUrl of the client
\* and issued on the instance.  While the request queue interceptor is
\* installed the request is held on the pending refresh call; otherwise it is
\* stamped and sent.
call(this, c, skipAuthRefresh) ==
    /\ calls[c].pc = "idle"
    /\ LET cfg == [calls[c] EXCEPT !.baseURL = baseUrl(this),
                                   !.skipAuthRefresh = skipAuthRefresh]
       IN  calls' = [calls EXCEPT ![c] =
                IF cache.requestQueueInterceptorId
                THEN [cfg EXCEPT !.pc = "queued", !.awaits = cache.refreshCall]
                ELSE Dispatch(cfg, store)]
    /\ hist' = [hist EXCEPT !.call[c].skip = skipAuthRefresh,
                            !.concurrent = @ /\ NoAnswerYet]
    /\ UNCHANGED <<isBrowser, store, cache, exch>>

HistAnswer(c, out) ==
    [hist EXCEPT !.call[c].first = IF calls[c].sends = 1 THEN out ELSE @,
                 !.pair = HistPair(out)]

\* A 2xx response to call c arrives: the response interceptor persists the
\* tokens it carries and call() resolves with the decoded body.
ResponseFulfilled(c, out) ==
    /\ calls[c].pc = "sent"
    /\ out \in Successes(CallTag(c, calls[c].sends))
    /\ store' = ResponseInterceptor(store, out)
    /\ calls' = [calls EXCEPT ![c].pc = "resolved", ![c].data = out.data]
    /\ hist' = HistAnswer(c, out)
    /\ UNCHANGED <<isBrowser, cache, exch>>

\* Call c fails (a non-2xx response or no response): the auth-refresh
\* interceptor either lets the error through to the catch of call(), or
\* awaits the refresh call and resends the request.
ResponseRejected(c, out) ==
    /\ calls[c].pc = "sent"
    /\ out \in Failures(CallTag(c, calls[c].sends))
    /\ IF ~shouldInterceptError(calls[c].skipAuthRefresh, out)
       THEN /\ calls' = [calls EXCEPT ![c].pc = "rejected",
                                      ![c].error = RefineCloudException(out)]
            /\ hist' = HistAnswer(c, out)
            /\ UNCHANGED <<cache, exch>>
       ELSE LET r == createRefreshCall(AuthRefreshInterceptor, cache, exch,
                                       store)
            IN  /\ cache' = r.cache
                /\ exch' = r.exch
                /\ hist' = HistAnswer(c, out)
                /\ calls' = [calls EXCEPT ![c] =
                       IF r.awaits = 0
                       THEN resendFailedRequest(@, store)
                       ELSE [@ EXCEPT !.pc = "suspended", !.awaits = r.awaits]]
    /\ UNCHANGED <<isBrowser, store>>

\* A 2xx response to exchange e arrives: the response interceptor persists
\* the tokens, refreshAuthLogic returns and the refresh call is fulfilled.
RefreshFulfilled(e, out) ==
    /\ e \in 1..Len(exch)
    /\ exch[e].pc = "sent"
    /\ out \in Successes(RefreshTag(e))
    /\ store' = ResponseInterceptor(store, out)
    /\ SettleRefresh(e, TRUE, out, store')
    /\ hist' = [hist EXCEPT !.batched = @ \/ AllSuspendedOn(e),
                            !.pair = HistPair(out)]
    /\ UNCHANGED isBrowser

\* Exchange e fails.  The exchange went through the same instance without
\* skipAuthRefresh: its 401 is intercepted like any other and awaits the
\* cached refresh call; any other failure rejects the refresh call.
RefreshRejected(e, out) ==
    /\ e \in 1..Len(exch)
    /\ exch[e].pc = "sent"
    /\ out \in Failures(RefreshTag(e))
    /\ hist' = [hist EXCEPT !.batched = @ \/ AllSuspendedOn(e)]
    /\ IF ~shouldInterceptError(exch[e].skipAuthRefresh, out)
       THEN SettleRefresh(e, FALSE, out, store)
       ELSE LET r == createRefreshCall(AuthRefreshInterceptor, cache, exch,
                                       store)
            IN  /\ cache' = r.cache
                /\ exch' = [r.exch EXCEPT ![e] =
                       IF r.awaits = 0
                       THEN resendFailedRequest(@, store)
                       ELSE [@ EXCEPT !.pc = "suspended", !.awaits = r.awaits]]
                /\ UNCHANGED calls
    /\ UNCHANGED <<isBrowser, store>>

\* call(payload) on the client constructed first.
Call(c, skipAuthRefresh) ==
    call(AuthRefreshInterceptor, c, skipAuthRefresh)

\* call(payload) on any of the clients.
CallOnAny(c, skipAuthRefresh) ==
    \E this \in Clients : call(this, c, skipAuthRefresh)

Next ==
    \/ \E c \in CallIds, skipAuthRefresh \in BOOLEAN : Call(c, skipAuthRefresh)
    \/ \E c \in CallIds : \E out \in Successes(CallTag(c, calls[c].sends)) :
           ResponseFulfilled(c, out)
    \/ \E c \in CallIds : \E out \in Failures(CallTag(c, calls[c].sends)) :
           ResponseRejected(c, out)
    \/ \E e \in 1..Len(exch) : \E out \in Successes(RefreshTag(e)) :
           RefreshFulfilled(e, out)
    \/ \E e \in 1..Len(exch) : \E out \in Failures(RefreshTag(e)) :
           RefreshRejected(e, out)

Spec == Init /\ [][Next]_vars

\* The same process with calls made through every client it constructed.
NextClients ==
    \/ \E c \in CallIds, skipAuthRefresh \in BOOLEAN :
           CallOnAny(c, skipAuthRefresh)
    \/ \E c \in CallIds : \E out \in Successes(CallTag(c, calls[c].sends)) :
           ResponseFulfilled(c, out)
    \/ \E c \in CallIds : \E out \in Failures(CallTag(c, calls[c].sends)) :
           ResponseRejected(c, out)
    \/ \E e \in 1..Len(exch) : \E out \in Successes(RefreshTag(e)) :
           RefreshFulfilled(e, out)
    \/ \E e \in 1..Len(exch) : \E out \in Failures(RefreshTag(e)) :
           RefreshRejected(e, out)

SpecClients == Init /\ [][NextClients]_vars

----------------------------------------------------------------------------
(* Properties.                                                             *)

Exchanges == 1..Len(exch)

\* An exchange whose refresh call has not settled.
Pending(e) == exch[e].pc \in {"sent", "suspended"}

IsAuthFailure(out) == out.kind = "response" /\ out.status = 401

\* C1: at most one refresh exchange is pending at any time, and every call
\* suspended by a 401 awaits that one exchange, which is the cached refresh
\* call.
C1_SingleFlight ==
    /\ Cardinality({e \in Exchanges : Pending(e)}) <= 1
    /\ \A c \in CallIds : calls[c].pc = "suspended" =>
           /\ calls[c].awaits \in Exchanges
           /\ Pending(calls[c].awaits)
           /\ cache.refreshCall = calls[c].awaits

\* Two calls are suspended on the same exchange still in flight: one of them started
\* it, the other received its 401 while it was pending and joined it.
C1_Witness ==
    \E c, d \in CallIds :
        /\ c # d
        /\ calls[c].pc = "suspended" /\ calls[d].pc = "suspended"
        /\ calls[c].awaits = calls[d].awaits
        /\ exch[calls[c].awaits].pc = "sent"

\* All calls were issued before any answer arrived, none with skipAuthRefresh,
\* the first attempt of each was answered 401, and the exchange that followed
\* carried the refresh token stored from the start.
AllConcurrent401 ==
    /\ hist.concurrent
    /\ \A c \in CallIds :
           /\ calls[c].pc # "idle"
           /\ ~hist.call[c].skip
           /\ IsAuthFailure(hist.call[c].first)
    /\ Len(exch) >= 1
    /\ exch[1].refreshToken = "r0"

\* C2 as stated: concurrent calls that all receive a 401 cause exactly one
\* refresh exchange, whatever the order of the answers.
C2_Original ==
    AllConcurrent401 => Len(exch) = 1

\* C2, state part: once an exchange was answered while every call was suspended
\* on it, it remains the only exchange ever issued and no call is sent more than twice.
C2_OneExchange ==
    (hist.batched \/ \E e \in Exchanges : AllSuspendedOn(e)) =>
        /\ Len(exch) = 1
        /\ \A c \in CallIds : calls[c].sends <= 2

\* C2, step part: when the exchange all calls are suspended on is answered with
\* success, every call is resent in that step carrying the access token then
\* stored; and the answer to a resent call settles it.
C2_Step ==
    /\ \A e \in Exchanges : (AllSuspendedOn(e) /\ exch'[e] # exch[e]) =>
         \A out \in Successes(RefreshTag(e)) :
           RefreshFulfilled(e, out) =>
               \A c \in CallIds :
                   /\ calls'[c].pc = "sent"
                   /\ calls'[c].sends = 2
                   /\ calls'[c].auth = getLocalStorage(store', AccessKey)
    /\ \A c \in CallIds :
           (hist.batched /\ calls[c].pc = "sent" /\ calls'[c] # calls[c]) =>
               calls'[c].pc \in {"resolved", "rejected"}

\* C2 (amended): if the 401 answers of all N concurrent calls arrive before the
\* answer of the refresh exchange, exactly one exchange is issued in total; when
\* it succeeds all N calls are resent with the same, then stored, access token
\* and each is settled by the answer to its retry.
C2_Amended ==
    [](C2_OneExchange) /\ [][C2_Step]_vars

\* Both calls were suspended on one exchange, it succeeded with a new pair, and
\* both retries are in flight with the new access token.
C2_Witness ==
    /\ hist.batched
    /\ AllConcurrent401
    /\ Len(exch) = 1 /\ exch[1].pc = "resolved"
    /\ \A c \in CallIds :
           calls[c].pc = "sent" /\ calls[c].sends = 2 /\ calls[c].auth = "a1"

\* C3 as stated: a refresh exchange answered 401 is not intercepted by the
\* coordinator, so no exchange is ever left awaiting a refresh call.
C3_Original ==
    \A e \in Exchanges : exch[e].pc # "suspended"

\* C4 as stated: when the refresh exchange fails, every call suspended on it is
\* rejected in that step with the error of the exchange and is not resent.
C4_Original ==
    [][\A e \in Exchanges : \A out \in Failures(RefreshTag(e)) :
          RefreshRejected(e, out) =>
              \A c \in CallIds :
                  (calls[c].pc = "suspended" /\ calls[c].awaits = e) =>
                      /\ calls'[c].pc = "rejected"
                      /\ calls'[c].error = RefineCloudException(out)
                      /\ calls'[c].sends = calls[c].sends]_vars

\* C5, step part: a successful exchange carrying a token pair stores the pair
\* and, in the same step, resends every call suspended on it with the new
\* access token; the 2xx answer to a retry resolves call() with its body.
C5_Step ==
    /\ \A e \in Exchanges : exch'[e] # exch[e] =>
         \A out \in Successes(RefreshTag(e)) :
           (HasTokenPair(out) /\ RefreshFulfilled(e, out)) =>
               /\ getLocalStorage(store', AccessKey) = out.data.accessToken
               /\ getLocalStorage(store', RefreshKey) = out.data.refreshToken
               /\ \A c \in CallIds :
                      (calls[c].pc = "suspended" /\ calls[c].awaits = e) =>
                          /\ calls'[c].pc = "sent"
                          /\ calls'[c].sends = calls[c].sends + 1
                          /\ calls'[c].auth = out.data.accessToken
    /\ \A c \in CallIds : (calls[c].sends = 2 /\ calls'[c] # calls[c]) =>
         \A out \in Successes(CallTag(c, 2)) :
           ResponseFulfilled(c, out) =>
               /\ calls'[c].pc = "resolved"
               /\ calls'[c].data = out.data

\* C5, state part: the caller of a retried call never observes the 401 of the
\* first attempt: what it receives is the body or the error of the retry.
C5_State ==
    \A c \in CallIds : calls[c].sends = 2 =>
        /\ IsAuthFailure(hist.call[c].first)
        /\ calls[c].pc = "resolved" => calls[c].data.id = CallTag(c, 2)
        /\ calls[c].pc = "rejected" =>
               calls[c].error # RefineCloudException(hist.call[c].first)

\* C5: after a 401, a successful exchange with a new pair persists the pair
\* before the retry, the retry carries the new access token, and the caller
\* receives the decoded body of the retry, never the 401.
C5_Recovery ==
    [](C5_State) /\ [][C5_Step]_vars

\* A call whose first attempt was answered 401 was retried after an exchange
\* stored the new pair, carried the new access token and resolved with the
\* body of the retry.
C5_Witness ==
    \E c \in CallIds :
        /\ IsAuthFailure(hist.call[c].first)
        /\ calls[c].pc = "resolved"
        /\ calls[c].sends = 2
        /\ calls[c].auth = "a1"
        /\ calls[c].data.id = CallTag(c, 2)
        /\ Len(exch) = 1 /\ exch[1].pc = "resolved" /\ exch[1].auth = "a0"
        /\ store[AccessKey] = "a1" /\ store[RefreshKey] = "r1"

\* C6 as stated: a 401 to a request not marked skipAuthRefresh, no refresh
\* token being stored, starts no exchange and rejects call() with the
\* error of that 401.
C6_Original ==
    [][\A c \in CallIds : \A out \in Failures(CallTag(c, calls[c].sends)) :
          (/\ ResponseRejected(c, out)
           /\ ~calls[c].skipAuthRefresh
           /\ IsAuthFailure(out)
           /\ getLocalStorage(store, RefreshKey) = None) =>
              /\ exch' = exch
              /\ calls'[c].pc = "rejected"
              /\ calls'[c].error = RefineCloudException(out)]_vars

\* C7, state part: a call issued with skipAuthRefresh whose request was
\* answered 401 was sent once and is rejected with the error of that 401.
C7_State ==
    \A c \in CallIds :
        (hist.call[c].skip /\ IsAuthFailure(hist.call[c].first)) =>
            /\ calls[c].pc = "rejected"
            /\ calls[c].sends = 1
            /\ calls[c].error = RefineCloudException(hist.call[c].first)

\* C7, step part: the 401 to such a call starts no exchange and leaves the
\* coordinator as it was.
C7_Step ==
    \A c \in CallIds : (hist.call[c].skip /\ calls'[c] # calls[c]) =>
      \A out \in Failures(CallTag(c, calls[c].sends)) :
        (IsAuthFailure(out) /\ ResponseRejected(c, out)) =>
            /\ exch' = exch
            /\ cache' = cache

\* C7: a request issued with skipAuthRefresh that receives a 401 triggers no
\* exchange, is never resent and rejects with the error of that 401, whether
\* or not a refresh token is stored or a refresh is pending.
C7_SkipFailsAtOnce ==
    [](C7_State) /\ [][C7_Step]_vars

\* A skipAuthRefresh call was rejected by its 401 while an exchange started by
\* another call was in flight.
C7_Witness ==
    \E c \in CallIds :
        /\ hist.call[c].skip
        /\ IsAuthFailure(hist.call[c].first)
        /\ calls[c].pc = "rejected"
        /\ \E e \in Exchanges : exch[e].pc = "sent"

\* C8 as stated: once an exchange has failed the coordinator is idle again, so a
\* 401 to a request not marked skipAuthRefresh, a refresh token being stored
\* and no exchange being in flight, starts a new exchange.
C8_Original ==
    [][\A c \in CallIds : \A out \in Failures(CallTag(c, calls[c].sends)) :
          (/\ ResponseRejected(c, out)
           /\ ~calls[c].skipAuthRefresh
           /\ IsAuthFailure(out)
           /\ getLocalStorage(store, RefreshKey) # None
           /\ \A e \in Exchanges : exch[e].pc # "sent") =>
              /\ Len(exch') = Len(exch) + 1
              /\ exch'[Len(exch')].pc = "sent"]_vars

\* C9: whenever a request passes the request interceptor (a first attempt, a
\* retry, a request released from the queue, the refresh exchange), the
\* Authorization header it leaves with is the access token stored at that
\* moment, and it has none when none is stored.
C9_Stamped ==
    [][/\ \A c \in CallIds :
              calls'[c].sends = calls[c].sends + 1 =>
                  calls'[c].auth = getLocalStorage(store', AccessKey)
       /\ \A e \in 1..Len(exch') :
              (e > Len(exch) \/ exch'[e].sends > exch[e].sends) =>
                  exch'[e].auth = getLocalStorage(store', AccessKey)]_vars

\* A retry is in flight with the access token an exchange has just stored,
\* while the exchange itself went out with the token stored before.
C9_Witness ==
    \E c \in CallIds :
        /\ calls[c].pc = "sent" /\ calls[c].sends = 2
        /\ calls[c].auth = "a1"
        /\ store[AccessKey] = "a1"
        /\ Len(exch) = 1 /\ exch[1].auth = "a0"

\* The tokens the Credential Store yields.
StoredTokens(st) ==
    <<getLocalStorage(st, AccessKey), getLocalStorage(st, RefreshKey)>>

\* What C10 says of the stored tokens in a step that receives the 2xx answer
\* out, overwritten being what a received pair leaves in the store.
TokensAfter(out, overwritten) ==
    IF HasTokenPair(out)
    THEN StoredTokens(store') = overwritten
    ELSE StoredTokens(store') = StoredTokens(store)

\* A step in which a 2xx answer is received, by a call or by an exchange.
ReceivesSuccess ==
    \/ \E c \in CallIds : calls[c].pc = "sent" /\ calls'[c].pc = "resolved"
    \/ \E e \in Exchanges : exch[e].pc = "sent" /\ exch'[e].pc = "resolved"

\* C10 as stated: the stored tokens change only on a 200 answer carrying both
\* tokens, which overwrites both with the returned values; every other step
\* leaves them unchanged and a 2xx answer without the pair starts no exchange.
C10_Original ==
    [][/\ \A c \in CallIds : calls'[c] # calls[c] =>
              \A out \in Successes(CallTag(c, calls[c].sends)) :
                  ResponseFulfilled(c, out) =>
                      /\ TokensAfter(out, <<out.data.accessToken,
                                            out.data.refreshToken>>)
                      /\ ~HasTokenPair(out) => (exch' = exch /\ cache' = cache)
       /\ \A e \in Exchanges : exch'[e] # exch[e] =>
              \A out \in Successes(RefreshTag(e)) :
                  RefreshFulfilled(e, out) =>
                      /\ TokensAfter(out, <<out.data.accessToken,
                                            out.data.refreshToken>>)
                      /\ Len(exch') = Len(exch)
       /\ ~ReceivesSuccess => StoredTokens(store') = StoredTokens(store)]_vars

\* C10 (amended): as stated where window.localStorage exists; where it does
\* not, no token is ever stored and a 200 answer carrying both tokens leaves
\* the store empty.
C10_Amended ==
    [][/\ \A c \in CallIds : calls'[c] # calls[c] =>
              \A out \in Successes(CallTag(c, calls[c].sends)) :
                  ResponseFulfilled(c, out) =>
                      /\ TokensAfter(out, IF isBrowser
                                          THEN <<out.data.accessToken,
                                                 out.data.refreshToken>>
                                          ELSE <<None, None>>)
                      /\ ~HasTokenPair(out) => (exch' = exch /\ cache' = cache)
       /\ \A e \in Exchanges : exch'[e] # exch[e] =>
              \A out \in Successes(RefreshTag(e)) :
                  RefreshFulfilled(e, out) =>
                      /\ TokensAfter(out, IF isBrowser
                                          THEN <<out.data.accessToken,
                                                 out.data.refreshToken>>
                                          ELSE <<None, None>>)
                      /\ Len(exch') = Len(exch)
       /\ ~ReceivesSuccess => StoredTokens(store') = StoredTokens(store)]_vars

\* A call answered 200 with a pair overwrote both stored tokens, and another
\* call answered 200 with only an access token left them as they were.
C10_Witness ==
    /\ isBrowser
    /\ StoredTokens(store) = <<"a1", "r1">>
    /\ \E c, d \in CallIds :
           /\ calls[c].pc = "resolved" /\ calls[c].auth = "a0"
           /\ calls[c].data.accessToken = "a1" /\ calls[c].data.refreshToken = "r1"
           /\ calls[d].pc = "resolved" /\ calls[d].auth = "a1"
           /\ calls[d].data.accessToken = "a1" /\ calls[d].data.refreshToken = None

\* C11: a failure of a call that is not a 401 response (another status, or no
\* response at all) starts no exchange, leaves the coordinator alone, is not
\* resent and rejects call() with the exception built from it.
C11_NoRecovery ==
    [][\A c \in CallIds : calls'[c] # calls[c] =>
          \A out \in Failures(CallTag(c, calls[c].sends)) :
              (~IsAuthFailure(out) /\ ResponseRejected(c, out)) =>
                  /\ exch' = exch
                  /\ cache' = cache
                  /\ calls'[c].pc = "rejected"
                  /\ calls'[c].sends = calls[c].sends
                  /\ calls'[c].error = RefineCloudException(out)]_vars

\* With a refresh token stored, one call was rejected by a 503 and another by
\* a network failure, each sent once, and no exchange was started.
C11_Witness ==
    /\ isBrowser /\ store[RefreshKey] = "r0"
    /\ Len(exch) = 0
    /\ \E c, d \in CallIds :
           /\ ~hist.call[c].skip /\ ~hist.call[d].skip
           /\ calls[c].pc = "rejected" /\ calls[c].sends = 1
           /\ calls[c].error.status = 503
           /\ calls[d].pc = "rejected" /\ calls[d].sends = 1
           /\ hist.call[d].first.kind = "network"

\* The empty string, as a message.
EmptyString == <<>>

\* The DomainError C12 describes for the failure err.
DomainError(err) ==
    IF err.kind = "response"
    THEN [message |-> err.data.message, status |-> err.status,
          statusText |-> err.statusText]
    ELSE [message |-> EmptyString, status |-> 0, statusText |-> ""]

\* C12 as stated: a call rejected by a failure carries the message, status and
\* statusText of the failing response, and the empty string, 0 and the empty
\* string when the failure has no response.
C12_Original ==
    [][\A c \in CallIds : calls'[c] # calls[c] =>
          \A out \in Failures(CallTag(c, calls[c].sends)) :
              (ResponseRejected(c, out) /\ calls'[c].pc = "rejected") =>
                  calls'[c].error = DomainError(out)]_vars

\* C14 as stated, for the server having answered every request sent to it:
\* once no request of the client is awaiting an answer, every call has settled.
C14_Original ==
    (/\ \A c \in CallIds : calls[c].pc # "sent"
     /\ \A e \in Exchanges : exch[e].pc # "sent") =>
        \A c \in CallIds : calls[c].pc \in {"idle", "resolved", "rejected"}

\* C15, step part: a 401 answering the retry of a call starts no exchange,
\* leaves the coordinator alone and rejects call() with that 401.
C15_Step ==
    \A c \in CallIds : (calls[c].sends = 2 /\ calls'[c] # calls[c]) =>
        \A out \in Failures(CallTag(c, 2)) :
            (IsAuthFailure(out) /\ ResponseRejected(c, out)) =>
                /\ exch' = exch
                /\ cache' = cache
                /\ calls'[c].pc = "rejected"
                /\ calls'[c].sends = 2
                /\ calls'[c].error = RefineCloudException(out)

\* C15: a call sends its request at most twice, and a retry answered 401 is
\* not recovered again but rejects call() with that 401.
C15_BoundedRecovery ==
    [](\A c \in CallIds : calls[c].sends <= 2) /\ [][C15_Step]_vars

\* A call was retried after a successful exchange, the retry was answered 401
\* and the call is rejected with that 401, one exchange having been issued.
C15_Witness ==
    \E c \in CallIds :
        /\ calls[c].pc = "rejected"
        /\ calls[c].sends = 2
        /\ calls[c].error.status = 401
        /\ calls[c].error.message = CallTag(c, 2)
        /\ Len(exch) = 1 /\ exch[1].pc = "resolved"

\* C16 as stated: a request not marked skipAuthRefresh that is answered 401
\* while no refresh token is stored is not sent again.
C16_Original ==
    [][\A c \in CallIds : calls'[c] # calls[c] =>
          \A out \in Failures(CallTag(c, calls[c].sends)) :
              (/\ IsAuthFailure(out)
               /\ ~calls[c].skipAuthRefresh
               /\ getLocalStorage(store, RefreshKey) = None
               /\ ResponseRejected(c, out)) =>
                  /\ calls'[c].sends = 1
                  /\ calls'[c].pc # "sent"]_vars

\* What C13 says of a step, held being the tokens the Credential holds after
\* a pair was received: a request stamped in the step carries the held access
\* token, and a 401 to a call not marked skipAuthRefresh finds the held refresh
\* token, so that the call awaits an exchange, a new one carrying that token.
HoldsPairInStep(held) ==
    /\ \A c \in CallIds :
           calls'[c].sends = calls[c].sends + 1 => calls'[c].auth = held[1]
    /\ \A c \in CallIds : (hist.pair # NoPair /\ calls'[c] # calls[c]) =>
           \A out \in Failures(CallTag(c, calls[c].sends)) :
               (/\ IsAuthFailure(out)
                /\ ~calls[c].skipAuthRefresh
                /\ ResponseRejected(c, out)) =>
                   /\ calls'[c].pc = "suspended"
                   /\ calls'[c].awaits = cache'.refreshCall
                   /\ Len(exch') > Len(exch) =>
                          exch'[Len(exch')].refreshToken = held[2]

\* C13 as stated: once a 200 answer carrying both tokens was received the
\* Credential holds them, with or without persistent storage: the store yields
\* them, later requests are stamped with the access token and a later 401 finds
\* the refresh token.
C13_Original ==
    /\ [](hist.pair # NoPair => StoredTokens(store) = hist.pair)
    /\ [][hist'.pair # NoPair => HoldsPairInStep(hist'.pair)]_vars

\* C13 (amended): where window.localStorage exists the Credential holds the
\* pair of the latest 200 answer that carried both tokens; where it does
\* not, nothing is held: later requests leave without Authorization header and
\* a later 401 finds no refresh token, so that the request is resent at once.
C13_Amended ==
    /\ [](hist.pair # NoPair =>
              StoredTokens(store) = IF isBrowser THEN hist.pair ELSE NoPair)
    /\ [][hist'.pair # NoPair =>
              IF isBrowser
              THEN HoldsPairInStep(hist'.pair)
              ELSE /\ \A c \in CallIds :
                          calls'[c].sends = calls[c].sends + 1 =>
                              calls'[c].auth = None
                   /\ exch' = exch]_vars

\* In a browser that started without tokens a call received a pair; a later
\* call went out with the returned access token, was answered 401 and awaits
\* an exchange that carries the returned refresh token.
C13_Witness ==
    /\ isBrowser
    /\ hist.pair = <<"a1", "r1">>
    /\ \E c, d \in CallIds :
           /\ calls[c].pc = "resolved" /\ calls[c].auth = None
           /\ calls[c].data.refreshToken = "r1"
           /\ calls[d].pc = "suspended" /\ calls[d].auth = "a1"
           /\ calls[d].awaits = 1
           /\ exch[1].refreshToken = "r1" /\ exch[1].auth = "a1"

\* C17: with several clients of different identity, a 401 on a call made
\* through one of them starts at most one exchange, and that exchange is posted
\* to the baseUrl of that client with its clientId as applicationClientId.
C17_Original ==
    [][\A c \in CallIds : calls'[c] # calls[c] =>
           \A out \in Failures(CallTag(c, calls[c].sends)) :
               (IsAuthFailure(out) /\ ResponseRejected(c, out)) =>
                   /\ Len(exch') <= Len(exch) + 1
                   /\ Len(exch') > Len(exch) =>
                          \E this \in Clients :
                              /\ calls[c].baseURL = baseUrl(this)
                              /\ exch'[Len(exch')].url[1] = baseUrl(this)
                              /\ exch'[Len(exch')].applicationClientId =
                                     clientId(this)]_vars

====
